---- MODULE Spec2Model ----
(***************************************************************************)
(* Model of the serial link manager of air780e-sms-uart-server:            *)
(* SerialConnection (connection.rs), the frame codec and ACK writer        *)
(* (serial_port.rs) and the SQLite store (database.rs).                    *)
(*                                                                         *)
(* What the device sends is modelled as a sequence of atoms.  An atom is a *)
(* run of one or more characters other than ':', CR and LF, or one of the  *)
(* single characters ":", "CR", "LF"; a line on the link and an id are     *)
(* sequences of atoms.  What the host writes is modelled byte by byte: the *)
(* write side is the stream of the bytes the ports have taken so far, and  *)
(* a write that the port takes in part leaves a fragment that the next     *)
(* write continues.                                                        *)
(*                                                                         *)
(* The maintain_loop task is modelled with one action per suspension point *)
(* (.await) of the code; pc is the position of the task.  The task that    *)
(* listens for Ctrl+C and the check_port tasks of a scan run beside it.    *)
(***************************************************************************)
EXTENDS Integers, Sequences, FiniteSets

VARIABLES
    cfgAuto,    \* config.port_name.to_lowercase() == "auto"
    state,      \* SerialConnection.state
    pc,         \* position of the maintain_loop task
    attempt,    \* loop variable of the validation loop in establish
    store,      \* rows of table sms_messages
    wire,       \* the bytes written host -> serial ports so far, as one stream
    wrote,      \* bytes the port has taken of the write_all maintain_loop is suspended in
    frames,     \* number of read results (lines, EOF, errors) consumed so far
    faults,     \* number of port faults so far: writes taken in part, scans left unanswered
    cur,        \* the ParsedMessage being processed: << >> or <<msg>>
    hist,       \* log of the store and writer calls made, oldest first
    notified,   \* what notifier.send returned for the frame in process, if it has
    lastRead,   \* how the latest wait in read_line ended, while the loop is back at it
    est,        \* log of the call of establish, until its result is used
    exitCode,   \* exit code of the process: << >> while it runs
    det,        \* auto_detect_port: scans finished without a device, ms slept, and
                \* the bytes each check_port task of the running scan has written
    port,       \* the port name establish works with, until the port is opened
    sig         \* the Ctrl+C task: "unarmed" until its first poll, "armed", "received"

vars == <<cfgAuto, state, pc, attempt, store, wire, wrote, frames, faults, cur, hist, notified,
          lastRead, est, exitCode, det, port, sig>>

(***************************************************************************)
(* Bounds of the model.                                                    *)
(***************************************************************************)
\* events of the device side in one behaviour: read results (lines, EOF,
\* errors) and port faults
MaxDeviceEvents == 2

\* port faults in one behaviour: a write that the port takes a part of, a scan
\* whose probe command is taken and answered by no device, a call of
\* auto_detect_port whose first scan finds no port to write to
MaxPortFaults == 1
\* config.serial.max_retry_count (any value > 0 passes Config::validate)
MaxRetryCount == 2

(***************************************************************************)
(* Text helpers.                                                           *)
(***************************************************************************)
COLON == ":"
CR == "CR"
LF == "LF"

\* Option<T>: None is the empty sequence, Some(x) is <<x>>
None == << >>
Some(x) == <<x>>

\* const INIT_CMD / the literal written by handle_messages, byte by byte
INIT_CMD ==
    <<"C", "M", "D", COLON, "G", "E", "T", "_", "D", "E", "V", "I", "C", "E", "_",
      "I", "N", "F", "O", CR, LF>>

\* the bytes of an id atom
AtomBytes(a) ==
    CASE a = "m1" -> <<"m", "1">>
      [] a = "m2" -> <<"m", "2">>
      [] a = "d1" -> <<"d", "1">>
      [] a = "h1" -> <<"h", "1">>
      [] a = "s1" -> <<"s", "1">>
      [] a = "b1" -> <<"b", "1">>
      [] a = "u1" -> <<"u", "1">>
      [] a = "j1" -> <<"j", "1">>
      [] a = "j2" -> <<"j", "2">>
      [] OTHER -> <<a>>

RECURSIVE AsBytes(_)
\* str.as_bytes() of a sequence of atoms
AsBytes(text) == IF text = << >> THEN << >> ELSE AtomBytes(Head(text)) \o AsBytes(Tail(text))

\* format!("ACK:{}\r\n", uuid).as_bytes()
AckFrame(uuid) == <<"A", "C", "K", COLON>> \o AsBytes(uuid) \o <<CR, LF>>

\* the stream after the port took n more bytes of text, k of which it had taken
WriteAll(w, text, k, n) == w \o SubSeq(text, k + 1, k + n)

\* what a poll of write_all(text) can come to when the port has taken k bytes:
\* the rest is taken and write_all returns Ok; n more bytes are taken and the
\* next poll_write returns Err; n more bytes are taken and the port is not
\* ready for more, so that write_all stays suspended
WriteOutcomes(text, k) ==
    {[n |-> Len(text) - k, res |-> "ok"]}
        \cup {[n |-> n, res |-> "err"] : n \in 0..(Len(text) - k - 1)}
        \cup {[n |-> n, res |-> "pending"] : n \in 1..(Len(text) - k - 1)}

\* the port takes a part of a write it had nothing of: a port fault
TakenInPart(k, o) == k = 0 /\ o.n > 0 /\ o.res # "ok"

(***************************************************************************)
(* ConnectionState.  attempts is meaningful for Reconnecting only and is 0 *)
(* for the other variants.                                                 *)
(***************************************************************************)
Initializing == [kind |-> "Initializing", attempts |-> 0]
Validating == [kind |-> "Validating", attempts |-> 0]
Connected == [kind |-> "Connected", attempts |-> 0]
Reconnecting(n) == [kind |-> "Reconnecting", attempts |-> n]
Failed == [kind |-> "Failed", attempts |-> 0]

(***************************************************************************)
(* Codec: base64, UTF-8 and JSON are modelled by tables over the payload   *)
(* atoms the device side can send.                                         *)
(***************************************************************************)
\* SmsPayload values carried by the SMS payload atoms
SmsJson(a) ==
    CASE a = "b64sms_m1" -> Some([id |-> <<"m1">>, sender |-> "+100", content |-> "hi",
                                  received_at |-> 1700000000, metas |-> "null"])
      [] a = "b64sms_m2b" -> Some([id |-> <<"m2">>, sender |-> "+300", content |-> "ho",
                                   received_at |-> 1700000002, metas |-> "null"])
      [] OTHER -> None

\* general_purpose::STANDARD.decode: the atoms that are valid base64
Base64Ok(text) ==
    /\ Len(text) = 1
    /\ text[1] \in {"b64sms_m1", "b64sms_m2b", "b64info", "b64obj",
                    "b64notjson", "b64notutf8", "AA=="}

\* String::from_utf8 of the decoded bytes
Utf8Ok(a) == a # "b64notutf8"

\* serde_json::from_str::<serde_json::Value>
ValueJsonOk(a) == a \in {"b64sms_m1", "b64sms_m2b", "b64info", "b64obj"}

\* serde_json::from_str::<DeviceInfoPayload>
DeviceInfoJsonOk(a) == a = "b64info"

\* the (i, j, k) with group 1 = line[1..i], group 2 = line[i+2..j] and
\* group 3 = line[j+2..k] that ^(.+?):(.+?):(.+?)[\r\n]*$ can match
RegexMatches(line) ==
    {m \in (1..Len(line)) \X (1..Len(line)) \X (1..Len(line)) :
        /\ m[1] + 2 <= m[2]
        /\ m[2] + 2 <= m[3]
        /\ line[m[1] + 1] = COLON
        /\ line[m[2] + 1] = COLON
        /\ \A p \in 1..m[3] : line[p] # LF
        /\ \A p \in (m[3] + 1)..Len(line) : line[p] \in {CR, LF}}

\* the match the non-greedy groups pick: shortest group 1, then group 2, then 3
RegexCapture(line) ==
    CHOOSE m \in RegexMatches(line) :
        \A o \in RegexMatches(line) :
            \/ m[1] < o[1]
            \/ m[1] = o[1] /\ m[2] < o[2]
            \/ m[1] = o[1] /\ m[2] = o[2] /\ m[3] <= o[3]

\* match msg_type { ... } of parse_message, given the type token and the payload
MessageTypeOf(msg_type, a) ==
    CASE msg_type = <<"DEVICE_INFO">> ->
            IF DeviceInfoJsonOk(a) THEN Some([tag |-> "DeviceInfo", payload |-> None]) ELSE None
      [] msg_type = <<"SMS_RECEIVED">> ->
            IF SmsJson(a) # None THEN Some([tag |-> "SmsReceived", payload |-> SmsJson(a)]) ELSE None
      [] msg_type = <<"SYSTEM_INIT">> ->
            IF ValueJsonOk(a) THEN Some([tag |-> "SystemInit", payload |-> None]) ELSE None
      [] msg_type = <<"HEART_BEAT">> ->
            IF ValueJsonOk(a) THEN Some([tag |-> "HeartBeat", payload |-> None]) ELSE None
      [] OTHER -> Some([tag |-> "Unknown", payload |-> None])

\* parse_message: None, or Some([id, message_type])
parse_message(line) ==
    IF RegexMatches(line) = {} THEN None
    ELSE LET m == RegexCapture(line)
             id == SubSeq(line, 1, m[1])
             msg_type == SubSeq(line, m[1] + 2, m[2])
             base64_data == SubSeq(line, m[2] + 2, m[3])
         IN  IF ~Base64Ok(base64_data) THEN None
             ELSE IF ~Utf8Ok(base64_data[1]) THEN None
             ELSE IF MessageTypeOf(msg_type, base64_data[1]) = None THEN None
             ELSE Some([id |-> id, message_type |-> MessageTypeOf(msg_type, base64_data[1])[1]])

\* the lines the device side sends
Lines ==
    { <<"m1", COLON, "SMS_RECEIVED", COLON, "b64sms_m1", CR, LF>>,
      <<"m1", COLON, "SMS_RECEIVED", COLON, "b64sms_m2b", CR, LF>>,
      <<"d1", COLON, "DEVICE_INFO", COLON, "b64info", CR, LF>>,
      <<"h1", COLON, "HEART_BEAT", COLON, "b64obj", CR, LF>>,
      <<"s1", COLON, "SYSTEM_INIT", COLON, "b64obj", CR, LF>>,
      <<"x", COLON, "FOO", COLON, "AA==", CR, LF>>,
      <<"garbage-no-colons", CR, LF>>,
      <<"one", COLON, "colon", CR, LF>>,
      <<"b1", COLON, "SMS_RECEIVED", COLON, "!!!", CR, LF>>,
      <<"u1", COLON, "HEART_BEAT", COLON, "b64notutf8", CR, LF>>,
      <<"j1", COLON, "SMS_RECEIVED", COLON, "b64obj", CR, LF>>,
      <<"j2", COLON, "DEVICE_INFO", COLON, "b64notjson", CR, LF>> }

\* parse_message of every line the device side sends
Decoded == [line \in Lines |-> parse_message(line)]

(***************************************************************************)
(* Store (database.rs).  The table is a set of rows; id is the PRIMARY KEY.*)
(* dbok = FALSE stands for a failure of the SQLite call itself.  A clock   *)
(* reading t is SystemTime::now() in seconds since UNIX_EPOCH; t < 0 is a  *)
(* wall clock set before the epoch, for which duration_since returns Err.  *)
(***************************************************************************)
\* SystemTime::now().duration_since(UNIX_EPOCH) is Ok
SinceEpochOk(t) == t >= 0

HasRow(st, id) == \E r \in st : r.id = id

\* SmsMessage { .. } built by process_message from the payload
SmsMessageOf(msg) ==
    [id |-> msg.message_type.payload[1].id,
     sender |-> msg.message_type.payload[1].sender,
     content |-> msg.message_type.payload[1].content,
     received_at |-> msg.message_type.payload[1].received_at,
     metas |-> msg.message_type.payload[1].metas]

\* the row INSERT writes: acknowledged 0, ack_sent_at NULL
NewRow(sms, t) ==
    [id |-> sms.id, sender |-> sms.sender, content |-> sms.content,
     received_at |-> sms.received_at, metas |-> sms.metas,
     acknowledged |-> FALSE, ack_sent_at |-> None, created_at |-> t]

\* Database::insert_sms returns Ok: duration_since(..)? passed, the INSERT ran
\* and the key was free
InsertOk(st, sms, t, dbok) == SinceEpochOk(t) /\ dbok /\ ~HasRow(st, sms.id)

\* the table after Database::insert_sms
insert_sms(st, sms, t, dbok) ==
    IF InsertOk(st, sms, t, dbok) THEN st \cup {NewRow(sms, t)} ELSE st

\* Database::mark_acknowledged panics: duration_since(..).unwrap() on an Err
MarkPanics(t) == ~SinceEpochOk(t)

\* Database::mark_acknowledged returns Ok, also when no row matched
MarkOk(st, id, t, dbok) == dbok /\ ~MarkPanics(t)

\* the table after Database::mark_acknowledged
mark_acknowledged(st, id, t, dbok) ==
    IF dbok /\ ~MarkPanics(t)
    THEN {IF r.id = id THEN [r EXCEPT !.acknowledged = TRUE, !.ack_sent_at = Some(t)] ELSE r :
            r \in st}
    ELSE st

\* Database::get_unacknowledged: the ids of the rows returned
get_unacknowledged(st) == {r.id : r \in {q \in st : ~q.acknowledged}}

(***************************************************************************)
(* Decisions of process_message and handle_messages.                       *)
(***************************************************************************)
\* AfterInsert with the Err of insert_sms dropped
AfterInsertIgnoringErr(ok) == "notify"

\* AfterInsert with an Err of insert_sms skipping only the notification
AfterInsertErrToAck(ok) == IF ok THEN "notify" ELSE "ack"

\* insert_sms(..).context(..)? : on Err process_message returns, the loop reads on
AfterInsert(ok) == IF ok THEN "notify" ELSE "read"

\* if let Err(e) = notifier.send(..) { log::warn!(..) } : goes on either way
AfterNotify(ok) == "ack"

\* mark_acknowledged(..).context(..)? is the last call of process_message: Ok or
\* Err, handle_messages (which only logs an Err) reads the next line
AfterMarkPc(ok) == "read"

\* AfterParseNone with an undecodable line ending handle_messages
AfterParseNoneReconnects == "reconnect_sleep"

\* parse_message returned None: log::warn!("Failed to parse message"), read on
AfterParseNone == "read"

\* AfterLogOnly with every parsed message acknowledged to the device
AfterLogOnlyAcks == "ack"

\* process_message arms DeviceInfo, SystemInit, HeartBeat, Unknown: log, return Ok
AfterLogOnly == "read"

\* AfterTimeoutState with the idle timeout counted as a lost connection
AfterTimeoutReconnecting(st) == Reconnecting(1)

\* Err(_) of timeout(30 s, read_line): log::debug!, continue; the state is not touched
AfterTimeoutState(st) == st

\* where handle_messages goes after the timeout: the same read loop
AfterTimeoutPc == "read"

\* CanRead with the next line taken while process_message is still suspended
CanReadWhileProcessing(p) == p \in {"read", "notify", "ack", "flush"}

\* read_line is awaited at the top of the loop only: process_message(..).await
\* has returned before the next iteration
CanRead(p) == p = "read"

\* send_ack(..).await.context(..)? : on Err process_message returns and
\* handle_messages logs "Failed to process message" and reads the next line
AckFailPc == "read"

\* the connection state after a failed send_ack: handle_messages leaves it alone
AckFailState(st) == st

\* mark_acknowledged is reached only when send_ack returned Ok (the ? before it)
MarkAfterSendAck(sent) == sent

\* serial_port::send_ack(writer, &msg.id)
AckId(msg) == msg.id

\* MarkId with the id of the JSON payload in place of the frame id
MarkIdOfPayload(msg) == msg.message_type.payload[1].id

\* self.db.mark_acknowledged(&msg.id)
MarkId(msg) == msg.id

\* AfterReadFail giving up in place of reconnecting
AfterReadFailGivesUp == Failed

\* the state maintain_loop sets when handle_messages returns Err
AfterReadFail == Reconnecting(0)

\* the state the next loop iteration sets after the reconnect sleep
AfterReconnectSleep == Initializing

\* open_native_async() failed: anyhow::bail! out of maintain_loop
AfterOpenFailPc == "returned_err"

\* the state when the open failed: untouched
AfterOpenFailState(st) == st

\* SystemTime::now() in seconds since the epoch.  It is the wall clock: a
\* reading can be earlier than, equal to or later than one taken before it,
\* and -1 is a clock set before the epoch
ClockReadings == {0 - 1, 0, 1}

\* one entry of hist
Event(f, op, msg, id, ok, fault) ==
    [frame |-> f, fid |-> msg.id, op |-> op, id |-> id, ok |-> ok, fault |-> fault]

\* "Error in connection loop" is only logged, "Shutdown signal received" too:
\* main then runs off its end, which is exit code 0
MainExitCode == 0

\* the exit code of a Rust process whose main thread panicked
PanicExitCode == 101

\* the exit code once maintain_loop returned Err, the shutdown signal won
\* select!, or the main task panicked
ExitCodeAt(p) ==
    IF p \in {"returned_err", "stopped"} THEN Some(MainExitCode)
    ELSE IF p = "panicked" THEN Some(PanicExitCode)
    ELSE None

\* the positions at which the process has ended with an exit code
Ended == {"returned_err", "stopped", "panicked"}

\* the positions at which there is no process any more: it ended, or SIGINT
\* killed it under the default disposition, which leaves no exit code
Gone == Ended \cup {"killed"}

\* RetryAfterFail giving up one attempt early
RetryAfterFailShort(a) == a + 1 < MaxRetryCount

\* RetryAfterFail with one attempt too many
RetryAfterFailLong(a) == a <= MaxRetryCount

\* for attempt in 1..=max_retry_count: a failed attempt is followed by the
\* sleep and another attempt while attempt < max_retry_count
RetryAfterFail(a) == a < MaxRetryCount

\* const AUTO_DETECT_MAX_RETRIES: u32 = 10
AUTO_DETECT_MAX_RETRIES == 10

\* const AUTO_DETECT_RETRY_DELAY_MS: u64 = 10000
AUTO_DETECT_RETRY_DELAY_MS == 10000

\* tokio_serial::available_ports(): the candidate ports in enumeration order
Ports == <<"/dev/ttyUSB0", "/dev/ttyUSB1">>

\* config.serial.port_name when it is not "auto"
ConfiguredPort == "/dev/ttyS0"

\* the orders in which the spawned check_port tasks can complete (join_next)
CompletionOrders ==
    {o \in [1..Len(Ports) -> {Ports[k] : k \in 1..Len(Ports)}] :
        \A a, b \in 1..Len(Ports) : a # b => o[a] # o[b]}

\* results: the ports whose check_port returned Some, pushed as the tasks complete
ScanResults(order, valid) == SelectSeq(order, LAMBDA q : q \in valid)

\* ScanAgain with the sleep and another scan after the last attempt too
ScanAgainAlways(a) == a <= AUTO_DETECT_MAX_RETRIES

\* if attempt < AUTO_DETECT_MAX_RETRIES { sleep } : else the loop ends, None
ScanAgain(a) == a < AUTO_DETECT_MAX_RETRIES

\* the ports of available_ports() as a set
PortSet == {Ports[k] : k \in 1..Len(Ports)}

\* a port without a check_port task that can still write: none was spawned, or
\* it returned None before its write (the port did not open), or it was aborted
NoTask == 0 - 1

\* det outside a scan of auto_detect_port
NoTasks == [p \in PortSet |-> NoTask]

\* det outside auto_detect_port
DetIdle == [attempt |-> 0, slept |-> 0, tasks |-> NoTasks, faulted |-> FALSE]

\* the ports whose check_port task wrote all of INIT_CMD and reads the answer
Probed(d) == {p \in PortSet : d.tasks[p] = Len(INIT_CMD)}

\* the device side has events left
HasBudget == frames + faults < MaxDeviceEvents

\* the device side has a port fault left
CanFault == HasBudget /\ faults < MaxPortFaults

\* est outside establish
EstIdle == [seq |-> << >>, probes |-> 0, fails |-> 0, sleeps |-> 0]

\* est when establish is entered: self.state = ConnectionState::Initializing
EstStart == [seq |-> <<"Initializing">>, probes |-> 0, fails |-> 0, sleeps |-> 0]

\* est with one more assignment to self.state
EstState(e, kind) == [e EXCEPT !.seq = Append(@, kind)]

(***************************************************************************)
(* Initial state: SerialConnection::new over a fresh database.             *)
(***************************************************************************)
Init ==
    /\ cfgAuto \in BOOLEAN
    /\ state = Initializing
    /\ pc = "start"
    /\ attempt = 0
    /\ store = {}
    /\ wire = << >>
    /\ wrote = 0
    /\ frames = 0
    /\ faults = 0
    /\ cur = None
    /\ hist = << >>
    /\ notified = None
    /\ lastRead = "none"
    /\ est = EstIdle
    /\ exitCode = None
    /\ det = DetIdle
    /\ port = None
    /\ sig = "unarmed"

(***************************************************************************)
(* write_all                                                               *)
(***************************************************************************)
\* one poll of a write_all(text) of maintain_loop comes to o: the bytes the
\* port takes are on the link, and wrote keeps the count while write_all is
\* suspended.
PortTakes(text, o) ==
    /\ o \in WriteOutcomes(text, wrote)
    /\ TakenInPart(wrote, o) => CanFault
    /\ wire' = WriteAll(wire, text, wrote, o.n)
    /\ wrote' = IF o.res = "pending" THEN wrote + o.n ELSE 0
    /\ faults' = IF TakenInPart(wrote, o) THEN faults + 1 ELSE faults

(***************************************************************************)
(* establish                                                               *)
(***************************************************************************)
\* maintain_loop calls establish for the first time
Start ==
    /\ pc = "start"
    /\ state' = Initializing
    /\ est' = EstStart
    /\ pc' = "resolve"
    /\ UNCHANGED <<cfgAuto, attempt, store, wire, wrote, frames, faults, cur, hist, lastRead,
                   exitCode, notified, det, port, sig>>

\* port_name == "auto": a scan of auto_detect_port begins.  enumok:
\* available_ports() returned Ok, and one check_port task is spawned for each
\* port.  A failed enumeration ends the scan.  The first scan of a call that
\* finds no port to write to is a port fault; the scans after it are not.
AutoDetectSpawnOf(enumok) ==
    /\ pc = "resolve"
    /\ cfgAuto
    /\ IF enumok
       THEN /\ det' = [det EXCEPT !.tasks = [p \in PortSet |-> 0]]
            /\ pc' = "scan"
            /\ faults' = faults
       ELSE /\ det.faulted \/ CanFault
            /\ faults' = IF det.faulted THEN faults ELSE faults + 1
            /\ det' = [det EXCEPT !.attempt = @ + 1, !.faulted = TRUE]
            /\ pc' = IF ScanAgain(det.attempt + 1) THEN "detect_sleep" ELSE "returned_err"
    /\ exitCode' = ExitCodeAt(pc')
    /\ UNCHANGED <<cfgAuto, state, attempt, store, wire, wrote, frames, cur, hist,
                   lastRead, est, notified, port, sig>>

\* a scan of auto_detect_port began
AutoDetectSpawn == \E enumok \in BOOLEAN : AutoDetectSpawnOf(enumok)

\* a spawned check_port task: open_native_async() failed, the task returns
\* None.  With no other task left that can write or has written, the scan
\* finds no port to write to.
ScanTaskOpenFailOf(p) ==
    /\ pc = "scan"
    /\ det.tasks[p] = 0
    /\ LET last == \A q \in PortSet \ {p} : det.tasks[q] \notin {0, Len(INIT_CMD)}
           fault == last /\ ~det.faulted
       IN  /\ fault => CanFault
           /\ faults' = IF fault THEN faults + 1 ELSE faults
           /\ det' = [det EXCEPT !.tasks[p] = NoTask, !.faulted = @ \/ fault]
    /\ UNCHANGED <<cfgAuto, state, pc, attempt, store, wire, wrote, frames, cur, hist,
                   lastRead, est, exitCode, notified, port, sig>>

\* a spawned check_port task could not open its port
ScanTaskOpenFail == \E p \in PortSet : ScanTaskOpenFailOf(p)

\* a spawned check_port task: the port is open and takes n more bytes of
\* INIT_CMD.  With all of them out the task reads the answer; with a part of
\* them out the write goes on, failed or stays suspended until its timeout.
\* After the rx.recv() branch dropped the JoinSet a task that was being polled
\* runs on to its next .await: it writes on for as long as the port takes
\* bytes, and with all of INIT_CMD out it is gone at the read.
ScanTaskWriteOf(p, n) ==
    /\ pc \in {"scan", "shutdown"}
    /\ det.tasks[p] \in 0..(Len(INIT_CMD) - 1)
    /\ n \in 1..(Len(INIT_CMD) - det.tasks[p])
    /\ LET part == det.tasks[p] = 0 /\ n < Len(INIT_CMD) IN
        /\ part => CanFault
        /\ faults' = IF part THEN faults + 1 ELSE faults
        /\ det' = [det EXCEPT !.tasks[p] = IF pc = "shutdown" /\ @ + n = Len(INIT_CMD)
                                            THEN NoTask ELSE @ + n,
                              !.faulted = @ \/ (part /\ pc = "scan")]
    /\ wire' = WriteAll(wire, INIT_CMD, det.tasks[p], n)
    /\ UNCHANGED <<cfgAuto, state, pc, attempt, store, wrote, frames, cur, hist,
                   lastRead, est, exitCode, notified, port, sig>>

\* a spawned check_port task wrote
ScanTaskWrite == \E p \in PortSet, n \in 1..Len(INIT_CMD) : ScanTaskWriteOf(p, n)

\* the check_port tasks of the scan have all completed.  valid: the ports
\* whose answer validates, out of those that took all of INIT_CMD; order: the
\* order in which the tasks complete.  A task whose write was taken in part
\* returns None.
AutoDetectOf(valid, order) ==
    /\ pc = "scan"
    /\ \A p \in PortSet : det.tasks[p] # 0
    /\ valid \subseteq Probed(det)
    /\ LET results == ScanResults(order, valid)
           a == det.attempt + 1
           silent == valid = {} /\ Probed(det) # {}
       IN  /\ silent => CanFault
           /\ faults' = IF silent THEN faults + 1 ELSE faults
           /\ IF results # << >>
              THEN /\ port' = Some(results[1])
                   /\ pc' = "detect_settle"
                   /\ det' = DetIdle
              ELSE /\ port' = port
                   /\ det' = [det EXCEPT !.attempt = a, !.tasks = NoTasks, !.faulted = TRUE]
                   /\ pc' = IF ScanAgain(a) THEN "detect_sleep" ELSE "returned_err"
    /\ exitCode' = ExitCodeAt(pc')
    /\ UNCHANGED <<cfgAuto, state, attempt, store, wire, wrote, frames, cur, hist, lastRead, est,
                   notified, sig>>

\* one scan of auto_detect_port ended
AutoDetect ==
    \E valid \in SUBSET PortSet, order \in CompletionOrders : AutoDetectOf(valid, order)

\* the sleep of 1000 ms after a port was detected ended: on to the validation loop
AutoDetectSettle ==
    /\ pc = "detect_settle"
    /\ pc' = "validate"
    /\ attempt' = 1
    /\ UNCHANGED <<cfgAuto, state, store, wire, wrote, frames, faults, cur, hist, lastRead, est,
                   exitCode, notified, det, port, sig>>

\* sleep(AUTO_DETECT_RETRY_DELAY_MS) ended: next attempt of auto_detect_port
AutoDetectSleep ==
    /\ pc = "detect_sleep"
    /\ det' = [det EXCEPT !.slept = @ + AUTO_DETECT_RETRY_DELAY_MS]
    /\ pc' = "resolve"
    /\ UNCHANGED <<cfgAuto, state, attempt, store, wire, wrote, frames, faults, cur, hist,
                   lastRead, est, exitCode, notified, port, sig>>

\* the configured port name is used as it is
UseConfigured ==
    /\ pc = "resolve"
    /\ ~cfgAuto
    /\ port' = Some(ConfiguredPort)
    /\ pc' = "validate"
    /\ attempt' = 1
    /\ UNCHANGED <<cfgAuto, state, store, wire, wrote, frames, faults, cur, hist, lastRead, est,
                   exitCode, notified, det, sig>>

\* top of the validation loop body: state = Validating, then check_port is awaited
ValidateBegin ==
    /\ pc = "validate"
    /\ state' = Validating
    /\ est' = EstState(est, "Validating")
    /\ pc' = "check"
    /\ UNCHANGED <<cfgAuto, attempt, store, wire, wrote, frames, faults, cur, hist, lastRead,
                   exitCode, notified, det, port, sig>>

\* check_port returned None: the sleep and another attempt, or Failed and bail
CheckPortNone ==
    IF RetryAfterFail(attempt)
    THEN /\ state' = state
         /\ pc' = "validate_sleep"
         /\ est' = [est EXCEPT !.probes = @ + 1, !.fails = @ + 1]
    ELSE /\ state' = Failed
         /\ pc' = "returned_err"
         /\ est' = EstState([est EXCEPT !.probes = @ + 1, !.fails = @ + 1], "Failed")

\* check_port: open_native_async() and the write_all(INIT_CMD) under its timeout.
\* A port that does not open, or a write that fails or runs into the timeout,
\* is check_port returning None; a write the port takes a part of and does not
\* fail stays suspended.
CheckPortWrite ==
    /\ pc = "check"
    /\ \E opened \in BOOLEAN :
        IF opened
        THEN \E o \in WriteOutcomes(INIT_CMD, wrote) :
                /\ PortTakes(INIT_CMD, o)
                /\ CASE o.res = "ok" -> pc' = "probe" /\ UNCHANGED <<state, est>>
                     [] o.res = "pending" -> pc' = "check" /\ UNCHANGED <<state, est>>
                     [] o.res = "err" -> CheckPortNone
        ELSE /\ wrote = 0
             /\ UNCHANGED <<wire, wrote, faults>>
             /\ CheckPortNone
    /\ exitCode' = ExitCodeAt(pc')
    /\ UNCHANGED <<cfgAuto, attempt, store, frames, cur, hist, lastRead, notified, det, port, sig>>

\* check_port: the read_line under its timeout ended and check_port returned;
\* ok: the answer matches the DEVICE_INFO pattern
CheckPort ==
    /\ pc = "probe"
    /\ \E ok \in BOOLEAN :
        IF ok
        THEN /\ state' = state
             /\ pc' = "settle"
             /\ est' = [est EXCEPT !.probes = @ + 1]
        ELSE CheckPortNone
    /\ exitCode' = ExitCodeAt(pc')
    /\ UNCHANGED <<cfgAuto, attempt, store, wire, wrote, frames, faults, cur, hist, lastRead,
                   notified, det, port, sig>>

\* the sleep of 500 ms after a validated probe ended: state = Connected, Ok(port_name)
ValidateSettle ==
    /\ pc = "settle"
    /\ state' = Connected
    /\ est' = EstState(est, "Connected")
    /\ pc' = "open"
    /\ attempt' = 0
    /\ UNCHANGED <<cfgAuto, store, wire, wrote, frames, faults, cur, hist, lastRead, exitCode,
                   notified, det, port, sig>>

\* sleep(retry_delay_ms) ended: next iteration of the validation loop
ValidateSleep ==
    /\ pc = "validate_sleep"
    /\ attempt' = attempt + 1
    /\ est' = [est EXCEPT !.sleeps = @ + 1]
    /\ pc' = "validate"
    /\ UNCHANGED <<cfgAuto, state, store, wire, wrote, frames, faults, cur, hist, lastRead,
                   exitCode, notified, det, port, sig>>

(***************************************************************************)
(* maintain_loop                                                           *)
(***************************************************************************)
\* tokio_serial::new(..).open_native_async()
Open ==
    /\ pc = "open"
    /\ \E ok \in BOOLEAN :
        IF ok
        THEN pc' = "handshake" /\ state' = state
        ELSE pc' = AfterOpenFailPc /\ state' = AfterOpenFailState(state)
    /\ exitCode' = ExitCodeAt(pc')
    /\ port' = None
    /\ est' = EstIdle
    /\ UNCHANGED <<cfgAuto, attempt, store, wire, wrote, frames, faults, cur, hist, lastRead,
                   notified, det, sig>>

\* handle_messages: writer.write_all(b"CMD:GET_DEVICE_INFO\r\n").await was
\* polled; an Err is only logged, and the read loop follows either way
Handshake ==
    /\ pc = "handshake"
    /\ \E o \in WriteOutcomes(INIT_CMD, wrote) :
        /\ PortTakes(INIT_CMD, o)
        /\ pc' = IF o.res = "pending" THEN "handshake" ELSE "read"
    /\ UNCHANGED <<cfgAuto, state, attempt, store, frames, cur, hist, lastRead, est, exitCode,
                   notified, det, port, sig>>

\* sleep(retry_delay_ms) after a lost connection ended: continue, establish again
ReconnectSleep ==
    /\ pc = "reconnect_sleep"
    /\ state' = AfterReconnectSleep
    /\ est' = EstStart
    /\ pc' = "resolve"
    /\ UNCHANGED <<cfgAuto, attempt, store, wire, wrote, frames, faults, cur, hist, lastRead,
                   exitCode, notified, det, port, sig>>

(***************************************************************************)
(* handle_messages and process_message                                     *)
(***************************************************************************)
\* read_line returned line: parse_message, and for an SMS the synchronous
\* first part of process_message up to notifier.send(..).await
ReadLineOf(line, dbok, t) ==
    /\ CanRead(pc)
    /\ HasBudget
    /\ frames' = frames + 1
    /\ LET pm == Decoded[line] IN
        IF pm = None
        THEN /\ pc' = AfterParseNone
             /\ lastRead' = IF AfterParseNone = "read" THEN "undecodable" ELSE "none"
             /\ UNCHANGED <<store, cur, hist>>
        ELSE IF pm[1].message_type.tag # "SmsReceived"
        THEN /\ pc' = AfterLogOnly
             /\ lastRead' = IF AfterLogOnly = "read" THEN "logged" ELSE "none"
             /\ cur' = IF AfterLogOnly = "read" THEN None ELSE Some(pm[1])
             /\ UNCHANGED <<store, hist>>
        ELSE LET msg == pm[1]
                 sms == SmsMessageOf(msg)
                 ok == InsertOk(store, sms, t, dbok)
             IN  /\ store' = insert_sms(store, sms, t, dbok)
                 /\ hist' = Append(hist, Event(frames + 1, "insert", msg, sms.id, ok,
                                               ~ok /\ ~HasRow(store, sms.id)))
                 /\ pc' = AfterInsert(ok)
                 /\ cur' = IF AfterInsert(ok) = "read" THEN None ELSE Some(msg)
                 /\ lastRead' = "none"
    /\ UNCHANGED <<cfgAuto, state, attempt, wire, wrote, faults, est, exitCode, notified, det,
                   port, sig>>

\* read_line returned some line
ReadLine ==
    \E line \in Lines, dbok \in BOOLEAN, t \in ClockReadings : ReadLineOf(line, dbok, t)

\* read_line returned Ok(0)
ReadEof ==
    /\ CanRead(pc)
    /\ HasBudget
    /\ frames' = frames + 1
    /\ lastRead' = "none"
    /\ state' = AfterReadFail
    /\ pc' = "reconnect_sleep"
    /\ UNCHANGED <<cfgAuto, attempt, store, wire, wrote, faults, cur, hist, est, exitCode,
                   notified, det, port, sig>>

\* read_line returned Err
ReadErr ==
    /\ CanRead(pc)
    /\ HasBudget
    /\ frames' = frames + 1
    /\ lastRead' = "none"
    /\ state' = AfterReadFail
    /\ pc' = "reconnect_sleep"
    /\ UNCHANGED <<cfgAuto, attempt, store, wire, wrote, faults, cur, hist, est, exitCode,
                   notified, det, port, sig>>

\* the 30 s timeout around read_line elapsed: log and wait again
ReadTimeout ==
    /\ CanRead(pc)
    /\ lastRead' = "timeout"
    /\ state' = AfterTimeoutState(state)
    /\ pc' = AfterTimeoutPc
    /\ UNCHANGED <<cfgAuto, attempt, store, wire, wrote, frames, faults, cur, hist, est,
                   exitCode, notified, det, port, sig>>

\* notifier.send(..).await returned ok: Ok or Err
NotifyOf(ok) ==
    /\ pc = "notify"
    /\ pc' = AfterNotify(ok)
    /\ cur' = IF AfterNotify(ok) = "read" THEN None ELSE cur
    /\ notified' = IF AfterNotify(ok) = "read" THEN None ELSE Some(ok)
    /\ UNCHANGED <<cfgAuto, state, attempt, store, wire, wrote, frames, faults, hist, lastRead,
                   est, exitCode, det, port, sig>>

\* notifier.send(..).await returned
Notify == \E ok \in BOOLEAN : NotifyOf(ok)

\* send_ack: writer.write_all(ack_msg).await was polled.  It returns Ok with
\* the whole frame out, returns Err with none or a part of it out, or stays
\* suspended with a part of it out.
AckWrite ==
    /\ pc = "ack"
    /\ \E o \in WriteOutcomes(AckFrame(AckId(cur[1])), wrote) :
        /\ PortTakes(AckFrame(AckId(cur[1])), o)
        /\ CASE o.res = "pending" ->
                    /\ pc' = "ack"
                    /\ UNCHANGED <<state, cur, notified, hist>>
             [] o.res = "ok" ->
                    /\ hist' = Append(hist, Event(frames, "write", cur[1], AckId(cur[1]),
                                                  TRUE, FALSE))
                    /\ pc' = "flush"
                    /\ UNCHANGED <<state, cur, notified>>
             [] o.res = "err" ->
                    /\ hist' = Append(hist, Event(frames, "write", cur[1], AckId(cur[1]),
                                                  FALSE, TRUE))
                    /\ pc' = AckFailPc
                    /\ state' = AckFailState(state)
                    /\ cur' = None
                    /\ notified' = None
    /\ UNCHANGED <<cfgAuto, attempt, store, frames, lastRead, est, exitCode, det, port, sig>>

\* send_ack: writer.flush().await returned, then the synchronous rest of
\* process_message (mark_acknowledged) and back to the read loop; a clock
\* before the epoch makes mark_acknowledged panic, which ends the process
AckFlush ==
    /\ pc = "flush"
    /\ \E ok \in BOOLEAN, dbok \in BOOLEAN, t \in ClockReadings :
        LET msg == cur[1]
            flushed == Event(frames, "flush", msg, AckId(msg), ok, ~ok)
            markok == MarkOk(store, MarkId(msg), t, dbok)
            marked == Event(frames, "mark", msg, MarkId(msg), markok, ~markok)
        IN  /\ hist' = IF MarkAfterSendAck(ok) THEN hist \o <<flushed, marked>>
                       ELSE Append(hist, flushed)
            /\ store' = IF MarkAfterSendAck(ok)
                        THEN mark_acknowledged(store, MarkId(msg), t, dbok)
                        ELSE store
            /\ pc' = IF ~ok THEN AckFailPc
                     ELSE IF MarkPanics(t) THEN "panicked"
                     ELSE AfterMarkPc(markok)
            /\ state' = IF ok THEN state ELSE AckFailState(state)
    /\ exitCode' = ExitCodeAt(pc')
    /\ cur' = None
    /\ notified' = None
    /\ UNCHANGED <<cfgAuto, attempt, wire, wrote, frames, faults, lastRead, est, det, port, sig>>

(***************************************************************************)
(* Shutdown: the task spawned by main waits for Ctrl+C and sends () on the *)
(* channel.  Its first poll installs the handler for SIGINT; a SIGINT      *)
(* before that kills the process.  maintain_loop runs on until main's      *)
(* select! polls rx.recv(): that branch drops maintain_loop at whatever    *)
(* .await it is suspended in, logs, and main ends.  Dropping maintain_loop *)
(* in a scan aborts the check_port tasks: one that is being polled runs on *)
(* to its next .await, and the process ends after it.                      *)
(***************************************************************************)
\* AfterSignalPc with a maintain_loop that sleeps on, select! not polling rx
AfterSignalSleepsOn(p) ==
    IF p \in {"detect_sleep", "validate_sleep", "reconnect_sleep"} THEN p ELSE "stopped"

\* the rx.recv() branch wins at any .await of maintain_loop
AfterSignalPc(p) == "stopped"

\* the check_port tasks that the drop of the JoinSet can find in a poll, before
\* the open or in write_all: they can still write what is left of INIT_CMD
Unstopped(d) ==
    [p \in PortSet |-> IF d.tasks[p] \in 0..(Len(INIT_CMD) - 1) THEN d.tasks[p] ELSE NoTask]

\* the first poll of the spawned task: tokio::signal::ctrl_c() registers the
\* handler for SIGINT
ListenCtrlC ==
    /\ sig = "unarmed"
    /\ pc \notin Gone
    /\ sig' = "armed"
    /\ UNCHANGED <<cfgAuto, state, pc, attempt, store, wire, wrote, frames, faults, cur, hist,
                   notified, lastRead, est, exitCode, det, port>>

\* SIGINT arrives.  With the handler registered ctrl_c() completes in the
\* spawned task: tx.send(()).  Before that the signal kills the process, which
\* leaves no exit code.
Interrupt ==
    /\ sig # "received"
    /\ pc \notin Gone
    /\ IF sig = "armed"
       THEN /\ sig' = "received"
            /\ UNCHANGED <<pc, attempt, cur, det, port, notified, lastRead, est, wrote>>
       ELSE /\ sig' = sig
            /\ pc' = "killed"
            /\ attempt' = 0
            /\ cur' = None
            /\ det' = DetIdle
            /\ port' = None
            /\ notified' = None
            /\ lastRead' = "none"
            /\ est' = EstIdle
            /\ wrote' = 0
    /\ UNCHANGED <<cfgAuto, state, store, wire, frames, faults, hist, exitCode>>

\* select! completed with the rx.recv() branch: maintain_loop is dropped,
\* "Shutdown signal received", "Server Stopped", main returns.  The process
\* has ended then, unless a check_port task is still running.
CtrlC ==
    /\ sig = "received"
    /\ pc \notin Gone \cup {"shutdown"}
    /\ LET q == AfterSignalPc(pc)
           running == pc = "scan" /\ \E p \in PortSet : Unstopped(det)[p] # NoTask
       IN  IF q = "stopped"
           THEN /\ pc' = IF running THEN "shutdown" ELSE "stopped"
                /\ det' = IF running THEN [DetIdle EXCEPT !.tasks = Unstopped(det)] ELSE DetIdle
                /\ attempt' = 0
                /\ cur' = None
                /\ port' = None
                /\ notified' = None
                /\ lastRead' = "none"
                /\ est' = EstIdle
                /\ wrote' = 0
           ELSE /\ pc' = q
                /\ UNCHANGED <<det, attempt, cur, port, notified, lastRead, est, wrote>>
    /\ exitCode' = ExitCodeAt(pc')
    /\ UNCHANGED <<cfgAuto, state, store, wire, frames, faults, hist, sig>>

\* the runtime is dropped at the end of main: it waits for the task that runs,
\* and the process ends with main's exit code
ProcessExit ==
    /\ pc = "shutdown"
    /\ pc' = "stopped"
    /\ det' = DetIdle
    /\ exitCode' = ExitCodeAt(pc')
    /\ UNCHANGED <<cfgAuto, state, attempt, store, wire, wrote, frames, faults, cur, hist,
                   notified, lastRead, est, port, sig>>

Next ==
    \/ Start
    \/ AutoDetectSpawn
    \/ ScanTaskOpenFail
    \/ ScanTaskWrite
    \/ AutoDetect
    \/ AutoDetectSettle
    \/ AutoDetectSleep
    \/ UseConfigured
    \/ ValidateBegin
    \/ CheckPortWrite
    \/ CheckPort
    \/ ValidateSettle
    \/ ValidateSleep
    \/ Open
    \/ Handshake
    \/ ReconnectSleep
    \/ ReadLine
    \/ ReadEof
    \/ ReadErr
    \/ ReadTimeout
    \/ Notify
    \/ AckWrite
    \/ AckFlush
    \/ ListenCtrlC
    \/ Interrupt
    \/ CtrlC
    \/ ProcessExit

Spec == Init /\ [][Next]_vars

\* the reconnect sleep of maintain_loop always ends, select! takes the
\* rx.recv() branch once () is in the channel, and the runtime ends once the
\* running tasks reached their .await
FairSpec == Spec /\ WF_vars(ReconnectSleep) /\ WF_vars(CtrlC) /\ WF_vars(ProcessExit)

(***************************************************************************)
(* Reading hist and wire.                                                  *)
(***************************************************************************)
IsWritten(e) == e.op = "write" /\ e.ok
WrittenAcks == SelectSeq(hist, IsWritten)
\* the ids of the frames and of the payloads the device side sends
SentIds ==
    {Decoded[line][1].id : line \in {l \in Lines : Decoded[l] # None}}
        \cup {SmsJson(a)[1].id : a \in {"b64sms_m1", "b64sms_m2b"}}
\* the bytes of the ACK frame of every such id
AckFrames == [id \in SentIds |-> AckFrame(id)]
\* the bytes of ACK:<id> CR LF start at position k of w
IsAckAt(w, k, id) ==
    /\ w[k] = "A"
    /\ k + Len(AckFrames[id]) - 1 <= Len(w)
    /\ SubSeq(w, k, k + Len(AckFrames[id]) - 1) = AckFrames[id]
\* the positions of the stream at which a whole ACK frame starts; two of them
\* are at least a frame apart
AckPositions(w) == {k \in 1..Len(w) : w[k] = "A" /\ \E id \in SentIds : IsAckAt(w, k, id)}
\* the ACK frames of the stream are counted by their positions
AckLines == AckPositions(wire)
RowsOf(id) == {r \in store : r.id = id}
\* the number of times the bytes of ACK:<id> CR LF are in the stream
AckCount(id) == Cardinality({k \in 1..Len(wire) : IsAckAt(wire, k, id)})
\* the wire holds exactly the ACK frames that hist records as written, in order:
\* the n-th frame of the stream carries the id of the n-th write that returned Ok
WireMatchesHist ==
    LET P == AckPositions(wire)
        h == WrittenAcks
    IN  /\ Cardinality(P) = Len(h)
        /\ \A k \in P : IsAckAt(wire, k, h[Cardinality({p \in P : p <= k})].id)
\* some event of op, returning Ok, of the same frame as hist[j] and before it
OkBefore(op, j) ==
    \E i \in 1..(j - 1) :
        hist[i].frame = hist[j].frame /\ hist[i].op = op /\ hist[i].ok
\* the frame of hist[i] is still being processed
InProgress(i) == frames = hist[i].frame /\ cur # None

(***************************************************************************)
(* C1: an ACK:<id> frame is written to the serial link only after          *)
(* store.insert for the same frame has returned success; no ACK write      *)
(* precedes or occurs without a successful insert of that frame.           *)
(***************************************************************************)
C1_AckOnlyAfterInsert ==
    /\ WireMatchesHist
    /\ \A j \in DOMAIN hist : hist[j].op = "write" => OkBefore("insert", j)

C1_Witness == \E j \in DOMAIN hist : hist[j].op = "write" /\ hist[j].ok

(***************************************************************************)
(* C2: markAck(id) is invoked only after the ACK:<id> bytes were written   *)
(* and flushed successfully, so every row with acknowledged = true has an  *)
(* ACK:<id> line for its own id in the write-side history.                 *)
(***************************************************************************)
C2_MarkOnlyAfterAck ==
    /\ \A j \in DOMAIN hist :
        hist[j].op = "mark" =>
            \E i \in 1..(j - 1), k \in 1..(j - 1) :
                /\ i < k
                /\ hist[i].frame = hist[j].frame /\ hist[k].frame = hist[j].frame
                /\ hist[i].op = "write" /\ hist[i].ok /\ hist[i].id = hist[j].id
                /\ hist[k].op = "flush" /\ hist[k].ok /\ hist[k].id = hist[j].id
    /\ \A r \in store : r.acknowledged => AckCount(r.id) >= 1

C2_Witness == \E r \in store : r.acknowledged /\ AckCount(r.id) >= 1

(***************************************************************************)
(* C3: for an SMS_RECEIVED frame whose frame id differs from the id of its *)
(* JSON payload the frame id is authoritative: the row is stored under the *)
(* frame id, the ACK is written for it and markAck targets it.             *)
(***************************************************************************)
C3_FrameIdAuthoritative ==
    \A i \in DOMAIN hist :
        (hist[i].op \in {"insert", "write", "mark"} /\ hist[i].ok) => hist[i].id = hist[i].fid

(***************************************************************************)
(* C4, as stated: if store.insert fails while an SMS frame is processed,   *)
(* no ACK:<id> is ever written for that id and markAck is never invoked    *)
(* for it.  Stated here for the inserts that fail on a storage fault (the  *)
(* key was free).                                                          *)
(***************************************************************************)
C4_NoAckEverAfterFailedInsert ==
    \A i \in DOMAIN hist :
        (hist[i].op = "insert" /\ ~hist[i].ok /\ hist[i].fault) =>
            /\ AckCount(hist[i].fid) = 0
            /\ \A j \in DOMAIN hist : hist[j].op = "mark" => hist[j].id # hist[i].fid

(***************************************************************************)
(* C4, amended: if store.insert fails while an SMS frame is processed, no  *)
(* ACK is written and markAck is not invoked in the processing of that     *)
(* frame: the failed insert is the only call made for the frame.  (A       *)
(* retransmission of the frame whose insert succeeds is ACKed.)            *)
(***************************************************************************)
C4_NoAckAfterFailedInsert ==
    /\ WireMatchesHist
    /\ \A i \in DOMAIN hist :
        (hist[i].op = "insert" /\ ~hist[i].ok) =>
            /\ ~InProgress(i)
            /\ \A j \in DOMAIN hist : hist[j].frame = hist[i].frame => j = i

C4_Witness ==
    \E i \in DOMAIN hist :
        hist[i].op = "insert" /\ ~hist[i].ok /\ hist[i].fault /\ frames > hist[i].frame

(***************************************************************************)
(* C5: re-insertion of an id already in the store is a no-op success:      *)
(* insert returns success, the store is unchanged and holds one row for    *)
(* the id.                                                                 *)
(***************************************************************************)
C5_ReinsertIsNoOpSuccess ==
    [][(/\ Len(hist') = Len(hist) + 1
        /\ hist'[Len(hist')].op = "insert"
        /\ ~hist'[Len(hist')].fault
        /\ RowsOf(hist'[Len(hist')].id) # {})
       => (/\ hist'[Len(hist')].ok
           /\ store' = store
           /\ Cardinality(RowsOf(hist'[Len(hist')].id)) = 1)]_vars

(***************************************************************************)
(* C6: replaying an SMS frame leaves one row for its id, and a duplicate   *)
(* id reported by the store does not suppress the ACK of that replay: the  *)
(* processing goes on to the ACK write.                                    *)
(***************************************************************************)
C6_ReplayIsAcked ==
    /\ \A r \in store : Cardinality(RowsOf(r.id)) = 1
    /\ \A i \in DOMAIN hist :
        (hist[i].op = "insert" /\ ~hist[i].ok /\ ~hist[i].fault) =>
            \/ InProgress(i)
            \/ pc \in {"stopped", "killed"}
            \/ \E j \in DOMAIN hist :
                  j > i /\ hist[j].frame = hist[i].frame /\ hist[j].op = "write"

(***************************************************************************)
(* C7: after the processing of a decoded SMS frame has completed, the      *)
(* store holds exactly one row with the frame's id, the row has            *)
(* acknowledged = true, and exactly one ACK:<id> line is on the write      *)
(* side, written after the insert and before the flag was set.             *)
(***************************************************************************)
C7_ProcessedFrameStoredAndAcked ==
    \A j \in DOMAIN hist :
        (hist[j].op = "mark" /\ hist[j].ok) =>
            /\ Cardinality(RowsOf(hist[j].fid)) = 1
            /\ \A r \in RowsOf(hist[j].fid) : r.acknowledged
            /\ AckCount(hist[j].fid) = 1
            /\ \E i \in 1..(j - 1), k \in 1..(j - 1) :
                /\ i < k
                /\ hist[i].frame = hist[j].frame /\ hist[k].frame = hist[j].frame
                /\ hist[i].op = "insert" /\ hist[i].ok /\ hist[i].id = hist[j].fid
                /\ hist[k].op = "write" /\ hist[k].ok /\ hist[k].id = hist[j].fid

(***************************************************************************)
(* C8: if writing or flushing the ACK frame fails, markAck is skipped and  *)
(* the connection leaves Connected for Reconnecting: the read loop on the  *)
(* stream ends.                                                            *)
(***************************************************************************)
C8_AckFailureReconnects ==
    [][(/\ pc \in {"ack", "flush"}
        /\ Len(hist') > Len(hist)
        /\ hist'[Len(hist) + 1].op \in {"write", "flush"}
        /\ ~hist'[Len(hist) + 1].ok)
       => (/\ Len(hist') = Len(hist) + 1
           /\ store' = store
           /\ state'.kind = "Reconnecting"
           /\ pc' = "reconnect_sleep")]_vars

(***************************************************************************)
(* C9: a read error or EOF while Connected moves the state to              *)
(* Reconnecting{attempts: 0}, never to Failed and never leaving it         *)
(* Connected; the only way on from Reconnecting is back to Initializing    *)
(* and the discovery/validate cycle, and unless the process is stopped by  *)
(* Ctrl+C, or killed by a SIGINT that came before the handler was          *)
(* registered, that step is taken once the retry_delay_ms sleep ends.      *)
(***************************************************************************)
C9_ReadFailureReconnects ==
    /\ [][/\ (ReadEof \/ ReadErr) =>
                (state = Connected /\ state' = Reconnecting(0) /\ pc' = "reconnect_sleep")
          /\ (state = Connected /\ state' # state) => state' = Reconnecting(0)
          /\ (/\ state.kind = "Reconnecting"
              /\ (state' # state \/ pc' \notin {pc, "stopped", "killed"})) =>
                (state' = Initializing /\ pc' = "resolve")]_vars
    /\ state.kind = "Reconnecting" ~> (state = Initializing \/ pc \in {"stopped", "killed"})

C9_Witness == state = Initializing /\ pc = "resolve" /\ frames > 0

(***************************************************************************)
(* C10: a failure to open the serial port after a successful validation    *)
(* is transient: it drives the manager into the reconnect cycle instead of *)
(* ending the main loop with an error.                                     *)
(***************************************************************************)
C10_OpenFailureReconnects ==
    [][(pc = "open" /\ pc' \notin {"open", "handshake", "stopped", "killed"})
       => (state'.kind = "Reconnecting" /\ pc' = "reconnect_sleep")]_vars

(***************************************************************************)
(* C11: an error of notifier.send while an SMS frame is processed is not   *)
(* fatal: the processing goes on to the ACK write with the state still     *)
(* Connected and the store and the write side untouched; the ACK:<id> line *)
(* is then written as after a successful send, the row stored for the      *)
(* frame ends with acknowledged = true when the mark succeeds, and the     *)
(* loop reads on.                                                          *)
(***************************************************************************)
C11_NotifierErrorNotFatal ==
    /\ [](notified = Some(FALSE) => (state = Connected /\ pc \in {"ack", "flush"} /\ cur # None))
    /\ [][/\ NotifyOf(FALSE) =>
                (/\ pc' = "ack" /\ notified' = Some(FALSE)
                 /\ state' = state /\ store' = store /\ wire' = wire /\ cur' = cur)
          /\ (/\ notified = Some(FALSE) /\ pc = "ack"
              /\ Len(hist') > Len(hist) /\ hist'[Len(hist')].ok) =>
                (/\ wire' = wire \o SubSeq(AckFrame(cur[1].id), wrote + 1, Len(AckFrame(cur[1].id)))
                 /\ state' = Connected /\ pc' = "flush")
          /\ (/\ notified = Some(FALSE) /\ pc = "flush"
              /\ Len(hist') > Len(hist)
              /\ hist'[Len(hist')].op = "mark" /\ hist'[Len(hist')].ok) =>
                (/\ \E r \in store' : r.id = SmsMessageOf(cur[1]).id /\ r.acknowledged
                 /\ state' = Connected /\ pc' = "read")]_vars

(***************************************************************************)
(* C12: an error local to one frame, a failed insert or a failed           *)
(* mark_acknowledged after the ACK was written, does not tear down the     *)
(* connection: the state is Connected before and after, and the loop is    *)
(* back at read_line on the same stream.                                   *)
(***************************************************************************)
C12_FrameErrorsKeepConnection ==
    [][(/\ Len(hist') > Len(hist)
        /\ hist'[Len(hist')].op \in {"insert", "mark"}
        /\ ~hist'[Len(hist')].ok)
       => (/\ state = Connected /\ state' = Connected
           /\ pc' = "read" /\ cur' = None
           /\ wire' = wire /\ exitCode' = None)]_vars

(***************************************************************************)
(* C13: a line that fails to decode (fewer than two ':' separators, bad    *)
(* base64, non-UTF-8 bytes, JSON that does not fit its TYPE) is decoded to *)
(* nothing, and reading it mutates neither the store nor the write side,   *)
(* leaves the connection state as it is and the loop at read_line.         *)
(***************************************************************************)
ColonCount(line) == Cardinality({p \in DOMAIN line : line[p] = COLON})

\* the lines of the four kinds, told by their text alone
UndecodableLines ==
    {line \in Lines :
        \/ ColonCount(line) < 2
        \/ /\ Len(line) = 7
           /\ \/ line[5] \in {"!!!", "b64notutf8", "b64notjson"}
              \/ line[3] = "SMS_RECEIVED" /\ line[5] = "b64obj"}

C13_UndecodableLineIsSkipped ==
    /\ [](\A line \in UndecodableLines : Decoded[line] = None)
    /\ [][\A line \in UndecodableLines :
            \* neither the store nor the clock is consulted for such a line
            ReadLineOf(line, TRUE, 0) =>
                (/\ store' = store /\ wire' = wire /\ hist' = hist
                 /\ state' = state /\ state = Connected
                 /\ pc' = "read" /\ cur' = None /\ exitCode' = None)]_vars

\* an undecodable line was read after an SMS had been stored and ACKed
C13_Witness ==
    /\ lastRead = "undecodable" /\ pc = "read" /\ state = Connected
    /\ store # {} /\ AckLines # {}

(***************************************************************************)
(* C14: the 30 s idle timeout of the read loop advances nothing: the state *)
(* stays Connected, no retry counter moves, the store and the write side   *)
(* are unchanged, and the loop waits in read_line again.                   *)
(***************************************************************************)
C14_IdleTimeoutChangesNothing ==
    [][(pc = "read" /\ lastRead # "timeout" /\ lastRead' = "timeout")
       => (/\ state = Connected /\ state' = state
           /\ pc' = "read"
           /\ attempt' = attempt /\ est' = est
           /\ store' = store
           /\ wire' = wire /\ hist' = hist
           /\ frames' = frames /\ exitCode' = None)]_vars

\* the loop waits again after a timeout, with a stored SMS in the store
C14_Witness ==
    lastRead = "timeout" /\ pc = "read" /\ state = Connected /\ store # {}

(***************************************************************************)
(* C15: one establish in which the probe fails k times and then succeeds   *)
(* has k < max_retry_count, sets the states Initializing, Validating k + 1 *)
(* times (once per probe) and Connected, in this order, and sleeps         *)
(* retry_delay_ms exactly k times; no establish probes more than           *)
(* max_retry_count times.                                                  *)
(***************************************************************************)
StatesOfSuccess(k) ==
    <<"Initializing">> \o [i \in 1..(k + 1) |-> "Validating"] \o <<"Connected">>

C15_EstablishRetriesThenConnects ==
    /\ est.probes <= MaxRetryCount
    /\ (est.seq # << >> /\ est.seq[Len(est.seq)] = "Connected") =>
          (/\ est.fails < MaxRetryCount
           /\ est.probes = est.fails + 1
           /\ est.sleeps = est.fails
           /\ est.seq = StatesOfSuccess(est.fails))

\* the probe failed once (k = 1) and then succeeded
C15_Witness ==
    /\ state = Connected /\ pc = "open"
    /\ est.fails = 1 /\ est.seq = StatesOfSuccess(1)

(***************************************************************************)
(* C16: the state is Failed exactly when max_retry_count probes of one     *)
(* validation phase have failed in a row; maintain_loop has then returned  *)
(* an error, and the state never leaves Failed.                            *)
(***************************************************************************)
C16_FailedOnlyAfterAllProbesFail ==
    /\ []((state = Failed) <=> (est.fails = MaxRetryCount))
    /\ [](state = Failed =>
            (/\ pc = "returned_err"
             /\ est.probes = MaxRetryCount
             /\ est.sleeps = MaxRetryCount - 1
             /\ est.seq[Len(est.seq)] = "Failed"))
    /\ [][state = Failed => (state' = Failed /\ pc' = "returned_err")]_vars

C16_Witness == state = Failed /\ est.fails = MaxRetryCount /\ pc = "returned_err"

(***************************************************************************)
(* C17: when the probe retries are exhausted the process exits with a      *)
(* non-zero exit code, and exit code 0 comes from a clean shutdown only.   *)
(***************************************************************************)
C17_ProbeFailureExitsNonZero ==
    /\ state = Failed => (exitCode # None /\ exitCode # Some(0))
    /\ exitCode = Some(0) => pc = "stopped"

(***************************************************************************)
(* C18: when the processing is cut off after the ACK write for an id and   *)
(* before mark_acknowledged(id) (Ctrl+C during the flush, or the flush     *)
(* fails), the row of that id is in the store with acknowledged = false    *)
(* and get_unacknowledged returns it; and no row is acknowledged without   *)
(* its ACK on the write side.                                              *)
(***************************************************************************)
\* hist ends with an ACK written and then cut off before the mark
CutAfterAckWrite ==
    /\ hist # << >>
    /\ \/ pc \in {"stopped", "killed"} /\ hist[Len(hist)].op = "write" /\ hist[Len(hist)].ok
       \/ hist[Len(hist)].op = "flush" /\ ~hist[Len(hist)].ok

C18_CutAfterAckKeepsRowUnacknowledged ==
    /\ CutAfterAckWrite =>
          (/\ \E r \in store : r.id = hist[Len(hist)].id /\ ~r.acknowledged
           /\ hist[Len(hist)].id \in get_unacknowledged(store))
    /\ \A r \in store : r.acknowledged => AckCount(r.id) >= 1

(***************************************************************************)
(* C19: in every store state every row has ack_sent_at set exactly when    *)
(* acknowledged is true, and then ack_sent_at >= created_at; a row that an *)
(* insert has just added has acknowledged = false and ack_sent_at null.    *)
(***************************************************************************)
C19_AckSentAtIffAcknowledged ==
    /\ [](\A r \in store :
            /\ r.acknowledged <=> r.ack_sent_at # None
            /\ r.ack_sent_at # None => r.ack_sent_at[1] >= r.created_at)
    /\ [][\A r \in store' :
            (\A q \in store : q.id # r.id) =>
                (~r.acknowledged /\ r.ack_sent_at = None)]_vars

(***************************************************************************)
(* C20: ACK lines are written only while an SMS_RECEIVED frame whose       *)
(* insert succeeded is processed, at most one per frame; reading a         *)
(* DEVICE_INFO, SYSTEM_INIT, HEART_BEAT or unknown-type frame mutates      *)
(* neither the store nor the write side; and the ACK lines written never   *)
(* outnumber the SMS frames stored.                                        *)
(***************************************************************************)
\* the frames of another type than SMS_RECEIVED, told by their text alone
NonSmsLines == {line \in Lines : Len(line) = 7 /\ line[3] # "SMS_RECEIVED"}

StoredFrames == {i \in DOMAIN hist : hist[i].op = "insert" /\ hist[i].ok}

C20_AcksOnlyForStoredSms ==
    /\ [](/\ WireMatchesHist
          /\ \A j \in DOMAIN hist : hist[j].op = "write" => OkBefore("insert", j)
          /\ \A i, j \in DOMAIN hist :
                (/\ hist[i].op = "write" /\ hist[j].op = "write"
                 /\ hist[i].frame = hist[j].frame) => i = j
          /\ LET n == Cardinality(AckLines)
             IN  n <= Cardinality(StoredFrames) /\ n <= Cardinality(store))
    /\ [][/\ \A line \in NonSmsLines :
                \* neither the store nor the clock is consulted for such a line
                ReadLineOf(line, TRUE, 0) =>
                    (store' = store /\ wire' = wire /\ hist' = hist /\ pc' = "read")
          /\ (wire' # wire /\ AckPositions(wire') # AckPositions(wire)) =>
                (/\ pc = "ack" /\ cur # None
                 /\ cur[1].message_type.tag = "SmsReceived"
                 /\ HasRow(store, cur[1].message_type.payload[1].id))]_vars

\* a frame of another type was read after an SMS had been stored and ACKed,
\* and a second SMS is stored without an ACK
C20_Witness ==
    /\ lastRead = "logged" /\ pc = "read"
    /\ Cardinality(AckLines) = 1 /\ Cardinality(store) >= 1

(***************************************************************************)
(* C21: frames are processed one at a time in arrival order: a line is     *)
(* read only when no frame is in process, the calls logged for a frame     *)
(* come in the order insert, write, flush, mark and never interleave with  *)
(* those of another frame, so the inserts and the ACK writes are each in   *)
(* arrival order.                                                          *)
(***************************************************************************)
OpRank(op) == CASE op = "insert" -> 1 [] op = "write" -> 2 [] op = "flush" -> 3 [] op = "mark" -> 4

C21_FramesInArrivalOrder ==
    /\ [](/\ \A i \in DOMAIN hist : hist[i].frame \in 1..frames
          /\ \A i, j \in DOMAIN hist :
                i < j =>
                    \/ hist[i].frame < hist[j].frame
                    \/ /\ hist[i].frame = hist[j].frame
                       /\ OpRank(hist[i].op) < OpRank(hist[j].op)
          /\ cur # None => (pc \in {"notify", "ack", "flush"} /\ cur[1].id = hist[Len(hist)].fid
                            /\ hist[Len(hist)].frame = frames))
    /\ [][frames' # frames =>
            (cur = None /\ notified = None /\ pc = "read" /\ frames' = frames + 1)]_vars

\* two frames in a row were stored and ACKed
C21_Witness ==
    \E i, j \in DOMAIN hist :
        /\ hist[i].op = "write" /\ hist[i].ok /\ hist[i].frame = 1
        /\ hist[j].op = "write" /\ hist[j].ok /\ hist[j].frame = 2

(***************************************************************************)
(* C22: auto_detect_port scans at most 10 times; a scan in which a probe   *)
(* validates returns a port at once; every unsuccessful scan but the 10th, *)
(* a failed enumeration included, is followed by one sleep of 10000 ms;    *)
(* the 10th unsuccessful scan returns None with no sleep after it.         *)
(***************************************************************************)
C22_AutoDetectScansAtMostTenTimes ==
    /\ [](/\ det.attempt <= 10
          /\ pc = "detect_sleep" => (det.attempt < 10 /\ det.slept = (det.attempt - 1) * 10000)
          /\ (pc \in {"resolve", "scan"} /\ cfgAuto) =>
                (det.attempt < 10 /\ det.slept = det.attempt * 10000)
          /\ det.attempt = 10 => (pc = "returned_err" /\ det.slept = 9 * 10000))
    /\ [][/\ (pc = "scan") =>
                \A valid \in SUBSET PortSet, order \in CompletionOrders :
                    (valid # {} /\ AutoDetectOf(valid, order)) =>
                        (pc' = "detect_settle" /\ port' # None /\ port'[1] \in valid)
          /\ (pc \in {"resolve", "scan"} /\ cfgAuto) =>
                \A order \in CompletionOrders :
                    (AutoDetectOf({}, order) \/ AutoDetectSpawnOf(FALSE)) =>
                        (/\ det'.attempt = det.attempt + 1
                         /\ pc' = IF det.attempt + 1 < 10 THEN "detect_sleep"
                                  ELSE "returned_err")
          /\ (pc = "detect_sleep" /\ pc' = "resolve") => det'.slept = det.slept + 10000]_vars

\* None was returned after the 10th unsuccessful scan and 9 sleeps
C22_Witness == pc = "returned_err" /\ det.attempt = 10 /\ det.slept = 90000

(***************************************************************************)
(* C23: when more than one port of a scan validates, auto_detect_port      *)
(* returns the validating port that is first in enumeration order,         *)
(* whatever the order in which the concurrent probes complete.             *)
(***************************************************************************)
FirstEnumerated(valid) ==
    Ports[CHOOSE k \in 1..Len(Ports) :
            Ports[k] \in valid /\ \A l \in 1..(k - 1) : Ports[l] \notin valid]

C23_FirstInEnumerationOrder ==
    [][(pc = "scan") =>
        \A valid \in SUBSET PortSet, order \in CompletionOrders :
            (valid # {} /\ AutoDetectOf(valid, order)) =>
                port' = Some(FirstEnumerated(valid))]_vars

(***************************************************************************)
(* C24: an interrupt signal stops the process, whatever the connection     *)
(* manager is doing (scanning or sleeping in auto-detect, validating,      *)
(* waiting in read_line or for the notifier, sleeping before a reconnect): *)
(* it kills the process at once or it is received, and once received the   *)
(* main loop ends and the process ends with an exit code; the step that    *)
(* takes the signal leaves the store, the write side and the call log as   *)
(* they are, and the store and the call log stay so until the process has  *)
(* ended, so no store call is cut in two.                                  *)
(***************************************************************************)
C24_InterruptStopsProcess ==
    /\ (sig = "received") ~> (pc \in Ended /\ exitCode # None)
    /\ [](pc \in Ended <=> exitCode # None)
    /\ [][Interrupt =>
            (/\ sig' = "received" \/ pc' = "killed"
             /\ store' = store /\ wire' = wire /\ hist' = hist /\ state' = state)]_vars
    /\ [][(pc \notin {"stopped", "shutdown"} /\ pc' \in {"stopped", "shutdown"}) =>
            (/\ sig = "received"
             /\ store' = store /\ wire' = wire /\ hist' = hist /\ state' = state)]_vars
    /\ [][(pc # "stopped" /\ pc' = "stopped") => exitCode' = Some(0)]_vars
    /\ [][(pc = "shutdown") =>
            (pc' \in {"shutdown", "stopped"} /\ store' = store /\ hist' = hist)]_vars
    /\ [][(pc \in Gone) =>
            (pc' = pc /\ store' = store /\ wire' = wire /\ exitCode' = exitCode)]_vars

\* stopped during the reconnect sleep, with an SMS stored
C24_Witness ==
    /\ sig = "received" /\ pc = "stopped" /\ exitCode # None
    /\ state.kind = "Reconnecting" /\ store # {}

(***************************************************************************)
(* C25: a retransmission makes up for an earlier fault: when an SMS frame  *)
(* arrives whose row is already in the store and its processing meets no   *)
(* fault, ACK:<id> is written and the row of the id has acknowledged =     *)
(* true once the frame is processed, so a stored row does not stay         *)
(* unacknowledged while its frame keeps arriving.                          *)
(***************************************************************************)
C25_RetransmissionIsAcknowledged ==
    \A i \in DOMAIN hist :
        (/\ hist[i].op = "insert" /\ ~hist[i].ok /\ ~hist[i].fault
         /\ ~InProgress(i)
         /\ \A j \in DOMAIN hist : hist[j].frame = hist[i].frame => ~hist[j].fault)
        => (/\ AckCount(hist[i].fid) >= 1
            /\ \A r \in RowsOf(hist[i].id) : r.acknowledged)

====
